---------------------------- MODULE Spec2Model ----------------------------
(***************************************************************************)
(* Model of whiteboard-to-notes-using-ai.py: the Gradio callback           *)
(* verarbeite_whiteboard and the helpers it drives (bild_als_base64,       *)
(* WhiteboardAssistent.analysiere_whiteboard, json_speichern,              *)
(* zeitstempel), the export directory on disk and the wall clock.          *)
(*                                                                         *)
(* Texts are sequences of one-character strings, so that str.replace,      *)
(* str.strip, json.loads and json.dump are computed character by           *)
(* character.                                                              *)
(***************************************************************************)
EXTENDS Integers, Sequences, FiniteSets, TLC

\* ------------------------------------------------------------------ bounds
\* Number of button clicks (handler invocations) in a run.
NReq == 2
\* Wall-clock time covered by a run, in ticks.
MaxTime == 2
\* Clock resolution of the model: ticks per second of wall-clock time.
TicksPerSec == 2
\* Characters the file system accepts in one piece when a write fails midway.
BlockSize == 8
\* Real time covered when zeitstempel() is followed on its own, in ticks.
MaxElapsed == 4
\* Number of zeitstempel() calls followed then.
MaxCalls == 2

\* ------------------------------------------------------------- characters
\* The backtick character of a markdown fence (the lexer of TLA+ does not accept
\* the character itself inside a string, so it is spelled out).
BT == "BACKTICK"
QT == "\""
NL == "\n"
SP == " "

\* Whitespace str.strip() and the JSON scanner skip (within the alphabet).
IsSpace(c) == c \in {SP, NL}

\* --------------------------------------------------------------- str ops
\* s[i..] starts with pat
StartsAt(s, i, pat) ==
    /\ i + Len(pat) - 1 <= Len(s)
    /\ \A k \in 1..Len(pat) : s[i + k - 1] = pat[k]

RECURSIVE ReplaceFrom(_, _, _)
\* str.replace(pat, "") scanning left to right from index i, non-overlapping
ReplaceFrom(s, i, pat) ==
    IF i > Len(s) THEN <<>>
    ELSE IF StartsAt(s, i, pat) THEN ReplaceFrom(s, i + Len(pat), pat)
    ELSE <<s[i]>> \o ReplaceFrom(s, i + 1, pat)

\* str.replace(pat, "")
Remove(s, pat) == ReplaceFrom(s, 1, pat)

RECURSIVE LStrip(_)
LStrip(s) == IF s # <<>> /\ IsSpace(Head(s)) THEN LStrip(Tail(s)) ELSE s

RECURSIVE RStrip(_)
RStrip(s) ==
    IF s # <<>> /\ IsSpace(s[Len(s)]) THEN RStrip(SubSeq(s, 1, Len(s) - 1)) ELSE s

\* str.strip()
Strip(s) == LStrip(RStrip(s))

FenceJson == <<BT, BT, BT, "j", "s", "o", "n">>
Fence == <<BT, BT, BT>>

\* rohtext.replace(FenceJson, "").replace(Fence, "").strip()
Bereinige(rohtext) == Strip(Remove(Remove(rohtext, FenceJson), Fence))

\* ------------------------------------------------------------ JSON values
\* A parsed JSON value. Every node has the same fields so that any two
\* nodes can be compared: t is the Python type, s the characters of a str or
\* the digits of an int, keys/kids the entries of a dict (in insertion
\* order) or the items of a list.
StrNode(chars) == [t |-> "str", s |-> chars, keys |-> <<>>, kids |-> <<>>]
NumNode(digits) == [t |-> "num", s |-> digits, keys |-> <<>>, kids |-> <<>>]
ArrNode(items) == [t |-> "arr", s |-> <<>>, keys |-> <<>>, kids |-> items]
ObjNode(ks, vs) == [t |-> "obj", s |-> <<>>, keys |-> ks, kids |-> vs]

\* Result of a scanner: ok = FALSE is json.JSONDecodeError.
ParseFail == [ok |-> FALSE, val |-> StrNode(<<>>), pos |-> 0]
ParseOk(v, p) == [ok |-> TRUE, val |-> v, pos |-> p]

RECURSIVE SkipWs(_, _)
\* WHITESPACE.match(s, i).end()
SkipWs(s, i) == IF i <= Len(s) /\ IsSpace(s[i]) THEN SkipWs(s, i + 1) ELSE i

RECURSIVE ScanString(_, _, _)
\* json.decoder.scanstring from index i (after the opening quote), strict:
\* a control character inside the string is an error.
ScanString(s, begin, i) ==
    IF i > Len(s) THEN ParseFail
    ELSE IF s[i] = QT THEN ParseOk(StrNode(SubSeq(s, begin, i - 1)), i + 1)
    ELSE IF s[i] = NL THEN ParseFail
    ELSE ScanString(s, begin, i + 1)

RECURSIVE ScanDigits(_, _)
ScanDigits(s, i) == IF i <= Len(s) /\ s[i] = "1" THEN ScanDigits(s, i + 1) ELSE i

\* dict semantics of pairs: a repeated key keeps its first position and takes
\* the last value.
RECURSIVE IndexOf(_, _, _)
IndexOf(ks, k, i) ==
    IF i > Len(ks) THEN 0 ELSE IF ks[i] = k THEN i ELSE IndexOf(ks, k, i + 1)

DictSet(obj, k, v) ==
    LET at == IndexOf(obj.keys, k, 1) IN
    IF at = 0 THEN ObjNode(Append(obj.keys, k), Append(obj.kids, v))
    ELSE ObjNode(obj.keys, [obj.kids EXCEPT ![at] = v])

RECURSIVE ScanOnce(_, _), ScanArray(_, _, _), ScanObject(_, _, _)

\* json.scanner.py_scan_once: the value starting exactly at index i
ScanOnce(s, i) ==
    IF i > Len(s) THEN ParseFail
    ELSE IF s[i] = QT THEN ScanString(s, i + 1, i + 1)
    ELSE IF s[i] = "{" THEN
        LET j == SkipWs(s, i + 1) IN
        IF j > Len(s) THEN ParseFail
        ELSE IF s[j] = "}" THEN ParseOk(ObjNode(<<>>, <<>>), j + 1)
        ELSE ScanObject(s, j, ObjNode(<<>>, <<>>))
    ELSE IF s[i] = "[" THEN
        LET j == SkipWs(s, i + 1) IN
        IF j > Len(s) THEN ParseFail
        ELSE IF s[j] = "]" THEN ParseOk(ArrNode(<<>>), j + 1)
        ELSE ScanArray(s, j, <<>>)
    ELSE IF s[i] = "1" THEN
        LET j == ScanDigits(s, i) IN ParseOk(NumNode(SubSeq(s, i, j - 1)), j)
    ELSE ParseFail

\* json.decoder.JSONArray: the loop over the items, i at the next item
ScanArray(s, i, items) ==
    LET r == ScanOnce(s, i) IN
    IF ~r.ok THEN ParseFail
    ELSE LET j == SkipWs(s, r.pos)
             got == Append(items, r.val) IN
         IF j > Len(s) THEN ParseFail
         ELSE IF s[j] = "]" THEN ParseOk(ArrNode(got), j + 1)
         ELSE IF s[j] = "," THEN ScanArray(s, SkipWs(s, j + 1), got)
         ELSE ParseFail

\* json.decoder.JSONObject: the loop over the pairs, i at the opening quote of the next key
ScanObject(s, i, obj) ==
    IF i > Len(s) \/ s[i] # QT THEN ParseFail
    ELSE LET k == ScanString(s, i + 1, i + 1) IN
         IF ~k.ok THEN ParseFail
         ELSE LET c == SkipWs(s, k.pos) IN
              IF c > Len(s) \/ s[c] # ":" THEN ParseFail
              ELSE LET r == ScanOnce(s, SkipWs(s, c + 1)) IN
                   IF ~r.ok THEN ParseFail
                   ELSE LET j == SkipWs(s, r.pos)
                            got == DictSet(obj, k.val.s, r.val) IN
                        IF j > Len(s) THEN ParseFail
                        ELSE IF s[j] = "}" THEN ParseOk(got, j + 1)
                        ELSE IF s[j] = "," THEN ScanObject(s, SkipWs(s, j + 1), got)
                        ELSE ParseFail

\* json.loads(s): one value, surrounded by optional whitespace, nothing more
loads(s) ==
    LET r == ScanOnce(s, SkipWs(s, 1)) IN
    IF ~r.ok THEN ParseFail
    ELSE IF SkipWs(s, r.pos) # Len(s) + 1 THEN ParseFail
    ELSE ParseOk(r.val, Len(s) + 1)

\* ---------------------------------------------------------------- json.dump
IndentWidth == 4

RECURSIVE Spaces(_)
Spaces(n) == IF n = 0 THEN <<>> ELSE <<SP>> \o Spaces(n - 1)

\* newline and indentation of nesting level depth
NewlineIndent(depth) == <<NL>> \o Spaces(IndentWidth * depth)

RECURSIVE dumps(_, _), DumpItems(_, _, _), DumpPairs(_, _, _)

\* json.dumps(v, indent=4, ensure_ascii=False) of a node at nesting level depth
dumps(v, depth) ==
    IF v.t = "str" THEN <<QT>> \o v.s \o <<QT>>
    ELSE IF v.t = "num" THEN v.s
    ELSE IF v.t = "arr" THEN
        IF v.kids = <<>> THEN <<"[", "]">>
        ELSE <<"[">> \o DumpItems(v, 1, depth + 1) \o NewlineIndent(depth) \o <<"]">>
    ELSE
        IF v.kids = <<>> THEN <<"{", "}">>
        ELSE <<"{">> \o DumpPairs(v, 1, depth + 1) \o NewlineIndent(depth) \o <<"}">>

DumpItems(v, i, depth) ==
    IF i > Len(v.kids) THEN <<>>
    ELSE (IF i > 1 THEN <<",">> ELSE <<>>) \o NewlineIndent(depth)
         \o dumps(v.kids[i], depth) \o DumpItems(v, i + 1, depth)

DumpPairs(v, i, depth) ==
    IF i > Len(v.kids) THEN <<>>
    ELSE (IF i > 1 THEN <<",">> ELSE <<>>) \o NewlineIndent(depth)
         \o <<QT>> \o v.keys[i] \o <<QT, ":", SP>>
         \o dumps(v.kids[i], depth) \o DumpPairs(v, i + 1, depth)

\* -------------------------------------------------------------- zeitstempel
Digit(k) == <<"0", "1", "2", "3", "4", "5", "6", "7", "8", "9">>[k + 1]

\* a strftime field of width two (%d, %H, %M, %S)
TwoDigits(n) == <<Digit(n \div 10), Digit(n % 10)>>

\* %Y%m%d of the local date. The model's clock counts from 2024-01-01 00:00:00
\* local time and stays within January 2024.
Ymd(days) == <<"2", "0", "2", "4", "0", "1">> \o TwoDigits(days + 1)

\* datetime.now().strftime("%Y%m%d_%H%M%S") when the local wall clock reads w
\* ticks: the sub-second part is dropped, there is no timezone field.
zeitstempel(w) ==
    LET sec == w \div TicksPerSec IN
    Ymd(sec \div 86400) \o <<"_">> \o TwoDigits((sec \div 3600) % 24)
        \o TwoDigits((sec \div 60) % 60) \o TwoDigits(sec % 60)

\* The wall clock at the start of a run: 2024-01-01 23:59:59 local time, so that
\* the seconds, minutes, hours and day fields all roll over within a run.
WallStart == 86399 * TicksPerSec

\* Mutant of Pfad: the token is left out of the file name.
PfadOhneToken(token) == <<"whiteboard_exports", "/", "lecture_notes_", ".json">>

\* out_dir / f"lecture_notes_{zeitstempel()}.json"
Pfad(token) == <<"whiteboard_exports", "/", "lecture_notes_">> \o token \o <<".json">>

\* Mutant of StatusText: the status names the directory, not the file.
StatusOhnePfad(speicherort) == <<"Gespeichert unter: ", "whiteboard_exports">>

\* f"Gespeichert unter: {speicherort}"
StatusText(speicherort) == <<"Gespeichert unter: ">> \o speicherort

\* ------------------------------------------------------------- model replies
\* Texts the hosted model may return as the first text block.
DocObj == <<"{", QT, "a", QT, ":", QT, "n", QT, "}">>
DocArr == <<"[", "1", "]">>
DocFenceInside == <<"{", QT, "a", QT, ":", QT, BT, BT, BT, QT, "}">>
DocSorry == <<"s", "o">>
Docs == {DocObj, DocArr, DocFenceInside, DocSorry}

Unfenced(d) == d
FencedJson(d) == FenceJson \o <<NL>> \o d \o <<NL>> \o Fence
FencedPlain(d) == Fence \o <<NL>> \o d \o <<NL>> \o Fence

Replies == {Unfenced(d) : d \in Docs} \cup {FencedJson(d) : d \in Docs}
               \cup {FencedPlain(d) : d \in Docs}

\* ----------------------------------------------------------------- the disk
\* Mutant of OpenForWrite: an existing file is opened without being truncated.
OpenNoTruncate(fs, p) == IF p \in DOMAIN fs THEN fs ELSE (p :> <<>>) @@ fs

\* Mutant of OpenForWrite: the directory is emptied before the file is created.
OpenWipe(fs, p) == (p :> <<>>)

\* open(pfad, "w"): the file is created, or truncated when it exists
OpenForWrite(fs, p) == (p :> <<>>) @@ fs

\* Mutant of WriteAt: the text never reaches the disk.
WriteUnflushed(old, text) == old

\* Writing text at offset 0 through a handle opened earlier: the bytes beyond
\* the text, left by another handle since this one truncated, stay.
WriteAt(old, text) == text \o SubSeq(old, Len(text) + 1, Len(old))

\* The lengths a failed write may leave on disk: whole blocks, short of the text.
PartialLengths(text) == {k \in 0..(Len(text) - 1) : k % BlockSize = 0}

\* ---------------------------------------------------------------- the state
Req == 1..NReq

VARIABLES
    pc,         \* where each invocation of verarbeite_whiteboard stands
    err,        \* the exception that ended it, "none" otherwise
    calls,      \* the components it has invoked so far, in order
    sent,       \* whether it has issued its request to the hosted model
    rohtext,    \* the reply text held inside analysiere_whiteboard
    ergebnis,   \* the parsed Analysis Result
    tok,        \* the token zeitstempel() gave it
    pfad,       \* the path of its export file
    status,     \* the status string it returned
    vorher,     \* the export directory as it was when the invocation began
    files,      \* whiteboard_exports: path -> text of the file
    dirExists,  \* whether whiteboard_exports exists
    wall,       \* the local wall clock, in ticks
    elapsed,    \* real time elapsed, in ticks (followed for zeitstempel alone)
    stamps      \* the zeitstempel() calls followed: real time and token of each

vars == <<pc, err, calls, sent, rohtext, ergebnis, tok, pfad, status,
          vorher, files, dirExists, wall, elapsed, stamps>>

\* the state of the invocations and of the disk
pipeline == <<pc, err, calls, sent, rohtext, ergebnis, tok, pfad, status,
              vorher, files, dirExists>>

NoResult == StrNode(<<>>)

Init ==
    /\ pc = [i \in Req |-> "idle"]
    /\ err = [i \in Req |-> "none"]
    /\ calls = [i \in Req |-> <<>>]
    /\ sent = [i \in Req |-> FALSE]
    /\ rohtext = [i \in Req |-> <<>>]
    /\ ergebnis = [i \in Req |-> NoResult]
    /\ tok = [i \in Req |-> <<>>]
    /\ pfad = [i \in Req |-> <<>>]
    /\ status = [i \in Req |-> <<>>]
    /\ vorher = [i \in Req |-> [p \in {} |-> <<>>]]
    /\ files = [p \in {} |-> <<>>]
    /\ dirExists \in BOOLEAN
    /\ wall = WallStart
    /\ elapsed = 0
    /\ stamps = <<>>

Finished(i) == pc[i] \in {"done", "failed"}

\* Mutant of Raise: the exception is caught and the handler carries on.
RaiseSwallow(i, e) ==
    /\ pc' = [pc EXCEPT ![i] = IF pc[i] \in {"idle", "encode", "analyse"}
                                 THEN "mkdir" ELSE "done"]
    /\ err' = [err EXCEPT ![i] = e]
    /\ UNCHANGED <<rohtext, ergebnis>>

\* An exception propagates out of verarbeite_whiteboard: nothing is returned,
\* and the locals of the frames it leaves are gone.
Raise(i, e) ==
    /\ pc' = [pc EXCEPT ![i] = "failed"]
    /\ err' = [err EXCEPT ![i] = e]
    /\ rohtext' = [rohtext EXCEPT ![i] = <<>>]
    /\ ergebnis' = [ergebnis EXCEPT ![i] = NoResult]

\* The step went through: on to the next statement.
Goto(i, next) ==
    /\ pc' = [pc EXCEPT ![i] = next]
    /\ UNCHANGED err

\* The button is clicked: verarbeite_whiteboard starts and constructs its
\* WhiteboardAssistent, which raises when no credential is configured.
verarbeite_whiteboard(i) ==
    /\ pc[i] = "idle"
    /\ vorher' = [vorher EXCEPT ![i] = files]
    /\ \/ Goto(i, "encode") /\ UNCHANGED <<rohtext, ergebnis>>
       \/ Raise(i, "ctor")
    /\ UNCHANGED <<calls, sent, tok, pfad, status, files, dirExists, wall,
                   elapsed, stamps>>

\* Clicks are numbered in the order they happen; the event queue serves one
\* invocation at a time.
Click(i) ==
    /\ \A j \in Req : j < i => Finished(j)
    /\ verarbeite_whiteboard(i)

\* A click while the invocation before it is still running starts a second
\* pipeline beside it.
ClickOverlap(i) ==
    /\ \A j \in Req : j < i => pc[j] # "idle"
    /\ \A j \in Req : j < i - 1 => Finished(j)
    /\ verarbeite_whiteboard(i)

\* b64 = bild_als_base64(bild_datei)
bild_als_base64(i) ==
    /\ pc[i] = "encode"
    /\ calls' = [calls EXCEPT ![i] = Append(@, "bild_als_base64")]
    /\ \/ Goto(i, "analyse") /\ UNCHANGED <<rohtext, ergebnis>>
       \/ Raise(i, "io_read")
    /\ UNCHANGED <<sent, tok, pfad, status, vorher, files, dirExists, wall,
                   elapsed, stamps>>

\* Mutant of analysiere_whiteboard: a reply that does not parse is returned as a string.
analysiere_whiteboard_nachsichtig(i) ==
    /\ pc[i] = "analyse"
    /\ calls' = [calls EXCEPT ![i] = Append(@, "analysiere_whiteboard")]
    /\ sent' = [sent EXCEPT ![i] = TRUE]
    /\ \E r \in Replies :
         LET parsed == loads(Bereinige(r)) IN
         /\ rohtext' = [rohtext EXCEPT ![i] = r]
         /\ ergebnis' = [ergebnis EXCEPT ![i] =
                            IF parsed.ok THEN parsed.val ELSE StrNode(<<>>)]
         /\ pc' = [pc EXCEPT ![i] = "mkdir"]
         /\ UNCHANGED err
    /\ UNCHANGED <<tok, pfad, status, vorher, files, dirExists, wall, elapsed,
                   stamps>>

\* ergebnis = assistent.analysiere_whiteboard(b64): the request is sent; it
\* fails on the network, or the reply has no content block (content[0] raises),
\* or its first text block is stripped of fences and parsed.
analysiere_whiteboard(i) ==
    /\ pc[i] = "analyse"
    /\ calls' = [calls EXCEPT ![i] = Append(@, "analysiere_whiteboard")]
    /\ sent' = [sent EXCEPT ![i] = TRUE]
    /\ \/ \E r \in Replies :
            LET bereinigt == Bereinige(r)
                parsed == loads(bereinigt) IN
            IF parsed.ok
            THEN /\ rohtext' = [rohtext EXCEPT ![i] = r]
                 /\ ergebnis' = [ergebnis EXCEPT ![i] = parsed.val]
                 /\ Goto(i, "mkdir")
            ELSE Raise(i, "parse")
       \/ Raise(i, "network")
       \/ Raise(i, "no_text")
    /\ UNCHANGED <<tok, pfad, status, vorher, files, dirExists, wall, elapsed,
                   stamps>>

\* json_speichern is entered: out_dir.mkdir(exist_ok=True). The reply text was
\* a local of analysiere_whiteboard and is gone.
Mkdir(i) ==
    /\ pc[i] = "mkdir"
    /\ calls' = [calls EXCEPT ![i] = Append(@, "json_speichern")]
    /\ \/ /\ dirExists' = TRUE
          /\ rohtext' = [rohtext EXCEPT ![i] = <<>>]
          /\ Goto(i, "stamp")
          /\ UNCHANGED ergebnis
       \/ /\ ~dirExists
          /\ Raise(i, "io_mkdir")
          /\ UNCHANGED dirExists
    /\ UNCHANGED <<sent, tok, pfad, status, vorher, files, wall, elapsed, stamps>>

\* dateiname = f"lecture_notes_{zeitstempel()}.json"; pfad = out_dir / dateiname
Stamp(i) ==
    /\ pc[i] = "stamp"
    /\ tok' = [tok EXCEPT ![i] = zeitstempel(wall)]
    /\ pfad' = [pfad EXCEPT ![i] = Pfad(zeitstempel(wall))]
    /\ Goto(i, "open")
    /\ UNCHANGED <<calls, sent, rohtext, ergebnis, status, vorher, files,
                   dirExists, wall, elapsed, stamps>>

\* open(pfad, "w", encoding="utf-8")
Open(i) ==
    /\ pc[i] = "open"
    /\ \/ /\ files' = OpenForWrite(files, pfad[i])
          /\ Goto(i, "write")
          /\ UNCHANGED <<rohtext, ergebnis>>
       \/ Raise(i, "io_open") /\ UNCHANGED files
    /\ UNCHANGED <<calls, sent, tok, pfad, status, vorher, dirExists, wall,
                   elapsed, stamps>>

\* json.dump(daten, f, indent=4, ensure_ascii=False), the file is closed,
\* json_speichern returns str(pfad) and verarbeite_whiteboard its pair. When the
\* write fails (disk full, unencodable text) what was written so far stays.
Write(i) ==
    /\ pc[i] = "write"
    /\ LET text == dumps(ergebnis[i], 0) IN
       \/ /\ files' = [files EXCEPT ![pfad[i]] = WriteAt(@, text)]
          /\ status' = [status EXCEPT ![i] = StatusText(pfad[i])]
          /\ Goto(i, "done")
          /\ UNCHANGED <<rohtext, ergebnis>>
       \/ \E k \in PartialLengths(text) :
            /\ files' = [files EXCEPT ![pfad[i]] = WriteAt(@, SubSeq(text, 1, k))]
            /\ Raise(i, "io_write")
            /\ UNCHANGED status
    /\ UNCHANGED <<calls, sent, tok, pfad, vorher, dirExists, wall, elapsed,
                   stamps>>

\* Time passes on the wall clock.
Tick ==
    /\ wall < WallStart + MaxTime
    /\ wall' = wall + 1
    /\ UNCHANGED <<pipeline, elapsed, stamps>>

\* The local wall clock is set back (end of daylight saving time, a clock
\* correction): datetime.now() is not monotonic.
ClockBack ==
    /\ \E d \in 1..MaxTime :
         /\ wall - d >= WallStart
         /\ wall' = wall - d
    /\ UNCHANGED <<pipeline, elapsed, stamps>>

\* speicherort = json_speichern(ergebnis), statement by statement
json_speichern(i) ==
    \/ Mkdir(i)
    \/ Stamp(i)
    \/ Open(i)
    \/ Write(i)

\* the statements of verarbeite_whiteboard after its first
Step(i) ==
    \/ bild_als_base64(i)
    \/ analysiere_whiteboard(i)
    \/ json_speichern(i)

Next ==
    \/ \E i \in Req : Click(i)
    \/ \E i \in Req : Step(i)
    \/ Tick
    \/ ClockBack

Spec == Init /\ [][Next]_vars

NextOverlap ==
    \/ \E i \in Req : ClickOverlap(i)
    \/ \E i \in Req : Step(i)
    \/ Tick
    \/ ClockBack

SpecOverlap == Init /\ [][NextOverlap]_vars

\* ------------------------------------------- zeitstempel() followed on its own
\* Real time passes by one tick, and the wall clock with it.
Elapse ==
    /\ elapsed < MaxElapsed
    /\ elapsed' = elapsed + 1
    /\ wall' = wall + 1
    /\ UNCHANGED <<pipeline, stamps>>

\* The wall clock is set back while real time is followed.
SetBack ==
    /\ \E d \in 1..MaxElapsed :
         /\ wall - d >= WallStart
         /\ wall' = wall - d
    /\ UNCHANGED <<pipeline, elapsed, stamps>>

\* A call of zeitstempel(), noted with the real time it was made at.
CallZeitstempel ==
    /\ Len(stamps) < MaxCalls
    /\ stamps' = Append(stamps, [at |-> elapsed, token |-> zeitstempel(wall)])
    /\ UNCHANGED <<pipeline, wall, elapsed>>

NextZeit ==
    \/ Elapse
    \/ SetBack
    \/ CallZeitstempel

SpecZeit == Init /\ [][NextZeit]_vars

\* ================================================================== claims
Done(i) == pc[i] = "done"

\* json_speichern of invocation j has opened its file
Opened(j) == pc[j] \in {"write", "done"} \/ (pc[j] = "failed" /\ err[j] = "io_write")

\* no invocation has begun after invocation i
Latest(i) == \A j \in Req : j > i => pc[j] = "idle"

\* the file at path p parses to the value v
Holds(p, v) == p \in DOMAIN files /\ loads(files[p]).ok /\ loads(files[p]).val = v

\* every file of the directory before, other than p, is there unchanged
OthersKept(before, p) ==
    \A q \in DOMAIN before : q # p => q \in DOMAIN files /\ files[q] = before[q]

Pipeline == <<"bild_als_base64", "analysiere_whiteboard", "json_speichern">>

IsPrefix(s, t) == Len(s) <= Len(t) /\ s = SubSeq(t, 1, Len(s))

\* ---- C1
\* C1 as stated: with the invocations run one after the other, an invocation
\* that has returned has added exactly one file, which did not exist when the
\* invocation began, and the file parses to the result it returned.
C1_Original ==
    \A i \in Req : Done(i) /\ Latest(i) =>
        /\ pfad[i] \notin DOMAIN vorher[i]
        /\ DOMAIN files = DOMAIN vorher[i] \cup {pfad[i]}
        /\ OthersKept(vorher[i], pfad[i])
        /\ Holds(pfad[i], ergebnis[i])

\* C1 amended: an invocation that has returned has written exactly one file,
\* which parses to the result it returned; the file existed when the invocation
\* began exactly when an earlier call of json_speichern had obtained the same
\* token, and then it is overwritten instead of added.
C1_Amended ==
    \A i \in Req : Done(i) /\ Latest(i) =>
        /\ DOMAIN files = DOMAIN vorher[i] \cup {pfad[i]}
        /\ OthersKept(vorher[i], pfad[i])
        /\ Holds(pfad[i], ergebnis[i])
        /\ (pfad[i] \in DOMAIN vorher[i]
              <=> \E j \in Req : j < i /\ Opened(j) /\ tok[j] = tok[i])

\* an invocation has returned after overwriting the file of an earlier one
C1_Witness ==
    \E i \in Req : /\ Done(i) /\ Latest(i)
                   /\ pfad[i] \in DOMAIN vorher[i]
                   /\ Holds(pfad[i], ergebnis[i])
                   /\ files[pfad[i]] # vorher[i][pfad[i]]

C3_Original ==
    \A i \in Req : Done(i) =>
        pfad[i] \in DOMAIN files /\ files[pfad[i]] = dumps(ergebnis[i], 0)

\* C3 amended: the file of every invocation that has returned exists, and it
\* has the text that invocation wrote unless a later call of json_speichern
\* obtained the same token.
C3_Amended ==
    \A i \in Req : Done(i) =>
        /\ pfad[i] \in DOMAIN files
        /\ \/ files[pfad[i]] = dumps(ergebnis[i], 0)
           \/ \E j \in Req : j > i /\ Opened(j) /\ tok[j] = tok[i]

\* a later invocation has written under another token and the earlier file is intact
C3_Witness ==
    \E i, j \in Req :
        /\ i < j /\ Done(i) /\ Opened(j) /\ tok[i] # tok[j]
        /\ pfad[i] \in DOMAIN files /\ files[pfad[i]] = dumps(ergebnis[i], 0)
        /\ pfad[j] \in DOMAIN files

\* ---- C4
\* C4: a step of json_speichern changes no file but the one at its own path;
\* its open leaves that file in the directory, and the file was there before
\* the open exactly when another call that has opened its file had obtained the
\* same token; a call that returns leaves its file in the directory.
C4_Frame ==
    [][\A i \in Req :
         pc[i] \in {"mkdir", "stamp", "open", "write"} /\ pc'[i] # pc[i] =>
           /\ \A q \in DOMAIN files :
                q # pfad[i] => q \in DOMAIN files' /\ files'[q] = files[q]
           /\ DOMAIN files' \subseteq DOMAIN files \cup {pfad[i]}
           /\ pc[i] \in {"mkdir", "stamp"} => files' = files
           /\ pc[i] = "open" /\ pc'[i] = "write" =>
                /\ pfad[i] \in DOMAIN files'
                /\ (pfad[i] \in DOMAIN files
                      <=> \E j \in Req : j # i /\ Opened(j) /\ tok[j] = tok[i])
           /\ pc'[i] = "done" => pfad[i] \in DOMAIN files'
      ]_vars

\* two calls have returned, one with a new token and one that met its token
\* on disk
C4_Witness ==
    \E i, j \in Req :
        /\ i # j /\ Done(i) /\ Done(j)
        /\ tok[i] = tok[j]
        /\ Cardinality(DOMAIN files) = 1

\* ---- C5
\* C5: the components an invocation has called are a prefix of Encoder,
\* Analysis Client, Result Persister; after a failure before or in the Encoder
\* no request was sent and no export path exists; after a failure of the
\* Analysis Client the Persister was not called and no export path exists; a
\* failed invocation has returned no status and no result, and one that
\* returned has called all three.
C5_OrderAndAbort ==
    \A i \in Req :
        /\ IsPrefix(calls[i], Pipeline)
        /\ err[i] \in {"ctor", "io_read"} =>
              ~sent[i] /\ pfad[i] = <<>> /\ Len(calls[i]) <= 1
        /\ err[i] \in {"network", "no_text", "parse"} =>
              pfad[i] = <<>> /\ Len(calls[i]) = 2
        /\ err[i] # "none" =>
              pc[i] = "failed" /\ status[i] = <<>> /\ ergebnis[i] = NoResult
        /\ pc[i] = "failed" => err[i] # "none"
        /\ Done(i) => calls[i] = Pipeline /\ sent[i]

\* one invocation failed in the Encoder, another in the Analysis Client
C5_Witness ==
    \E i, j \in Req : err[i] = "io_read" /\ err[j] \in {"network", "no_text"}

\* ---- C6
\* C6 as stated: two zeitstempel() calls made more than one second apart
\* return different strings.
C6_Original ==
    \A a, b \in 1..Len(stamps) :
        stamps[b].at - stamps[a].at > TicksPerSec =>
            stamps[a].token # stamps[b].token

\* ---- C7
\* C7 as stated: when two invocations have both returned, the file each one
\* names in its status holds its own result.
C7_Original ==
    \A i, j \in Req : i # j /\ Done(i) /\ Done(j) =>
        Holds(pfad[i], ergebnis[i]) /\ Holds(pfad[j], ergebnis[j])

\* C7 amended: the result of an invocation is the parse of its own reply, and
\* the file an invocation that has returned names in its status holds its own
\* result provided no other invocation obtained the same token.
C7_Amended ==
    \A i \in Req :
        /\ pc[i] = "mkdir" => ergebnis[i] = loads(Bereinige(rohtext[i])).val
        /\ Done(i) /\ (\A j \in Req : j # i => tok[j] # tok[i]) =>
              /\ status[i] = <<"Gespeichert unter: ">> \o pfad[i]
              /\ Holds(pfad[i], ergebnis[i])

\* two invocations that overlapped (the second began before the first had
\* opened its file) have both returned, with different tokens and results
C7_Witness ==
    \E i, j \in Req :
        /\ i < j /\ Done(i) /\ Done(j)
        /\ pfad[i] \notin DOMAIN vorher[j]
        /\ tok[i] # tok[j] /\ ergebnis[i] # ergebnis[j]

\* ---- C8
\* What C8 says fence stripping removes: whitespace around the reply, one
\* leading fence with or without the json tag, one trailing fence.
StripLeadingFence(s) ==
    IF StartsAt(s, 1, FenceJson) THEN SubSeq(s, Len(FenceJson) + 1, Len(s))
    ELSE IF StartsAt(s, 1, Fence) THEN SubSeq(s, Len(Fence) + 1, Len(s))
    ELSE s

StripTrailingFence(s) ==
    IF Len(s) >= Len(Fence) /\ StartsAt(s, Len(s) - Len(Fence) + 1, Fence)
    THEN SubSeq(s, 1, Len(s) - Len(Fence))
    ELSE s

Unwrapped(s) == Strip(StripTrailingFence(StripLeadingFence(Strip(s))))

\* C8 as stated: for a reply that is a valid JSON document, optionally wrapped
\* in fences, the result is the parse of that document.
C8_Original ==
    \A i \in Req :
        pc[i] = "mkdir" /\ loads(Unwrapped(rohtext[i])).ok =>
            ergebnis[i] = loads(Unwrapped(rohtext[i])).val

\* ---- C9
\* C9: an invocation that has returned has a status that is the fixed prefix
\* followed by the path json_speichern returned, that path is the export file
\* name built from its token, and the directory and the file exist.
C9_StatusNamesExistingFile ==
    \A i \in Req : Done(i) =>
        /\ Len(status[i]) = Len(pfad[i]) + 1
        /\ status[i][1] = "Gespeichert unter: "
        /\ SubSeq(status[i], 2, Len(status[i])) = pfad[i]
        /\ pfad[i] = <<"whiteboard_exports", "/", "lecture_notes_">> \o tok[i]
                        \o <<".json">>
        /\ Len(tok[i]) = 15
        /\ dirExists
        /\ pfad[i] \in DOMAIN files

\* an invocation has returned while another has file and directory in use
C9_Witness ==
    \E i, j \in Req : i # j /\ Done(i) /\ pc[j] = "write" /\ dirExists

\* ---- C10
\* C10 as stated: after an invocation has failed, the export directory is
\* exactly as it was when the invocation began.
C10_Original ==
    \A i \in Req : pc[i] = "failed" /\ Latest(i) => files = vorher[i]

=============================================================================
